---- MODULE Spec2Model ----
(***************************************************************************)
(* Model of sheets-db-api: the value codec (formatValueForSheets /         *)
(* formatValueFromSheets), the sheet/row mapper of the sheets service and  *)
(* the Express routes in front of it, over a model of the spreadsheet      *)
(* backend reached through the googleapis client.                          *)
(*                                                                         *)
(* Text is a sequence of one-character strings.  A JavaScript value is a   *)
(* record [t, s]: t is the type tag ("null", "undef", "str", "num",        *)
(* "bool") and s the text of the value (String(value)).                    *)
(***************************************************************************)
EXTENDS Integers, Sequences, FiniteSets, TLC

VARIABLES
  sheetList,   \* container metadata: sequence of [sheetId, title]
  cells,       \* title -> grid (sequence of rows, a row is a sequence of values)
  req,         \* the last HTTP request served
  resp,        \* the HTTP response of the last request
  backendCalls, \* backend calls issued by the last request, in order
  lenient,     \* Date.parse accepts day 29..31 in any month and rolls over
  cin,         \* codec harness: input value
  cout,        \* codec harness: result of the last codec application
  cop,         \* codec harness: last codec operation applied
  header,      \* the X-Spreadsheet-Id header of the last request
  fault,       \* the backend call of the last request that fails, if any
  appends      \* the appendRow calls that run step by step, one per process

vars == <<sheetList, cells, req, resp, backendCalls, lenient, cin, cout, cop,
          header, fault, appends>>

(***************************************************************************)
(* Bounds                                                                  *)
(***************************************************************************)
MaxRows == 3

(***************************************************************************)
(* Values and text                                                         *)
(***************************************************************************)
Digits == {"0", "1", "2", "3", "4", "5", "6", "7", "8", "9"}

Null == [t |-> "null", s |-> <<>>]
Undefined == [t |-> "undef", s |-> <<>>]
Str(txt) == [t |-> "str", s |-> txt]
Num(txt) == [t |-> "num", s |-> txt]
Bool(txt) == [t |-> "bool", s |-> txt]
EmptyStr == Str(<<>>)
\* an object value: s is its sequence of <<key, value>> properties
Obj(props) == [t |-> "obj", s |-> props]

DigitVal(c) ==
  CASE c = "0" -> 0 [] c = "1" -> 1 [] c = "2" -> 2 [] c = "3" -> 3
    [] c = "4" -> 4 [] c = "5" -> 5 [] c = "6" -> 6 [] c = "7" -> 7
    [] c = "8" -> 8 [] c = "9" -> 9

DigitChar(n) ==
  CASE n = 0 -> "0" [] n = 1 -> "1" [] n = 2 -> "2" [] n = 3 -> "3"
    [] n = 4 -> "4" [] n = 5 -> "5" [] n = 6 -> "6" [] n = 7 -> "7"
    [] n = 8 -> "8" [] n = 9 -> "9"

RECURSIVE ParseInt(_)
\* the decimal number a text of digits denotes
ParseInt(txt) ==
  IF txt = <<>> THEN 0
  ELSE 10 * ParseInt(SubSeq(txt, 1, Len(txt) - 1)) + DigitVal(txt[Len(txt)])

RECURSIVE ToText(_)
\* String(n) for a non-negative integer
ToText(n) ==
  IF n < 10 THEN <<DigitChar(n)>>
  ELSE Append(ToText(n \div 10), DigitChar(n % 10))

\* String(n).padStart(2, '0')
PadStart2(txt) == IF Len(txt) < 2 THEN <<"0">> \o txt ELSE txt

\* full-string match of a text against a pattern; "d" in the pattern is \d
Matches(txt, pat) ==
  /\ Len(txt) = Len(pat)
  /\ \A i \in 1..Len(pat) :
       IF pat[i] = "d" THEN txt[i] \in Digits ELSE txt[i] = pat[i]

DatePat == <<"d", "d", "d", "d", "-", "d", "d", "-", "d", "d">>
TimePat == <<"d", "d", ":", "d", "d", ":", "d", "d">>

\* /^\d{4}-\d{2}-\d{2}T\d{2}:\d{2}:\d{2}(\.\d{3})?Z$/
ISO_DATE_REGEX(txt) ==
  \/ Matches(txt, DatePat \o <<"T">> \o TimePat \o <<"Z">>)
  \/ Matches(txt, DatePat \o <<"T">> \o TimePat \o <<".", "d", "d", "d", "Z">>)

\* variant: any character separates the date from the time
SHEETS_DATETIME_REGEX_AnySeparator(txt) ==
  /\ Len(txt) = 19
  /\ Matches(SubSeq(txt, 1, 10), DatePat)
  /\ Matches(SubSeq(txt, 12, 19), TimePat)

\* /^\d{4}-\d{2}-\d{2} \d{2}:\d{2}:\d{2}$/
SHEETS_DATETIME_REGEX(txt) == Matches(txt, DatePat \o <<" ">> \o TimePat)

\* /^\d{4}-\d{2}-\d{2}$/
SHEETS_DATE_REGEX(txt) == Matches(txt, DatePat)

(***************************************************************************)
(* new Date(isoText) and its UTC getters                                   *)
(***************************************************************************)
IsLeap(y) == (y % 4 = 0 /\ y % 100 # 0) \/ y % 400 = 0

DaysInMonth(y, m) ==
  IF m = 2 THEN (IF IsLeap(y) THEN 29 ELSE 28)
  ELSE IF m \in {4, 6, 9, 11} THEN 30 ELSE 31

\* the date fields of a text that matches ISO_DATE_REGEX
IsoFields(txt) ==
  [y  |-> ParseInt(SubSeq(txt, 1, 4)),
   mo |-> ParseInt(SubSeq(txt, 6, 7)),
   d  |-> ParseInt(SubSeq(txt, 9, 10)),
   h  |-> ParseInt(SubSeq(txt, 12, 13)),
   mi |-> ParseInt(SubSeq(txt, 15, 16)),
   se |-> ParseInt(SubSeq(txt, 18, 19)),
   ms |-> IF Len(txt) = 24 THEN ParseInt(SubSeq(txt, 21, 23)) ELSE 0]

\* Date.parse yields a time value (not NaN).  A day beyond the month's
\* length is out of bounds in ECMA-262; engines that only check 1..31
\* (len = TRUE) accept it.  24:00:00.000 is the end of the day.
ValidDate(f, len) ==
  /\ f.mo \in 1..12
  /\ f.d >= 1
  /\ f.d <= (IF len THEN 31 ELSE DaysInMonth(f.y, f.mo))
  /\ \/ f.h \in 0..23 /\ f.mi \in 0..59 /\ f.se \in 0..59
     \/ f.h = 24 /\ f.mi = 0 /\ f.se = 0 /\ f.ms = 0

\* MakeDay: a day past the end of the month rolls into the next month
NormDay(f) ==
  IF f.d > DaysInMonth(f.y, f.mo)
  THEN IF f.mo = 12
       THEN [f EXCEPT !.y = f.y + 1, !.mo = 1, !.d = f.d - DaysInMonth(f.y, f.mo)]
       ELSE [f EXCEPT !.mo = f.mo + 1, !.d = f.d - DaysInMonth(f.y, f.mo)]
  ELSE f

\* the UTC fields of a valid date: hour 24 is hour 0 of the next day
UTCFields(f) ==
  LET g == NormDay(f) IN
  IF g.h = 24 THEN NormDay([g EXCEPT !.h = 0, !.d = g.d + 1]) ELSE g

NaNText == <<"N", "a", "N">>

(***************************************************************************)
(* Value codec                                                             *)
(***************************************************************************)
\* the text produced for a string that matches ISO_DATE_REGEX
FormatIsoForSheets(txt, len) ==
  IF ValidDate(IsoFields(txt), len)
  THEN LET u == UTCFields(IsoFields(txt)) IN
       ToText(u.y) \o <<"-">> \o PadStart2(ToText(u.mo)) \o <<"-">>
         \o PadStart2(ToText(u.d)) \o <<" ">> \o PadStart2(ToText(u.h))
         \o <<":">> \o PadStart2(ToText(u.mi)) \o <<":">> \o PadStart2(ToText(u.se))
  ELSE NaNText \o <<"-">> \o NaNText \o <<"-">> \o NaNText \o <<" ">>
         \o NaNText \o <<":">> \o NaNText \o <<":">> \o NaNText

formatValueForSheets(value, len) ==
  IF value.t \in {"null", "undef"} THEN EmptyStr
  ELSE IF value.t = "str" /\ ISO_DATE_REGEX(value.s)
       THEN Str(FormatIsoForSheets(value.s, len))
       ELSE value

\* variant: the date-only pattern is not anchored at the end of the string
formatValueFromSheets_Unanchored(value) ==
  IF value.t \in {"null", "undef"} \/ value = EmptyStr THEN Null
  ELSE IF value.t = "str" /\ SHEETS_DATETIME_REGEX(value.s)
       THEN Str(SubSeq(value.s, 1, 10) \o <<"T">> \o SubSeq(value.s, 12, 19)
                  \o <<".", "0", "0", "0", "Z">>)
       ELSE IF value.t = "str" /\ Len(value.s) >= 10
                 /\ SHEETS_DATE_REGEX(SubSeq(value.s, 1, 10))
            THEN Str(value.s \o <<"T", "0", "0", ":", "0", "0", ":", "0", "0",
                                  ".", "0", "0", "0", "Z">>)
            ELSE value
\* variant: numbers and booleans come back as their text
formatValueFromSheets_Text(value) ==
  IF value.t \in {"null", "undef"} \/ value = EmptyStr THEN Null
  ELSE IF value.t \in {"num", "bool"} THEN Str(value.s)
  ELSE value

formatValueFromSheets(value) ==
  IF value.t \in {"null", "undef"} \/ value = EmptyStr THEN Null
  ELSE IF value.t = "str" /\ SHEETS_DATETIME_REGEX(value.s)
       THEN Str(SubSeq(value.s, 1, 10) \o <<"T">> \o SubSeq(value.s, 12, 19)
                  \o <<".", "0", "0", "0", "Z">>)
       ELSE IF value.t = "str" /\ SHEETS_DATE_REGEX(value.s)
            THEN Str(value.s \o <<"T", "0", "0", ":", "0", "0", ":", "0", "0",
                                  ".", "0", "0", "0", "Z">>)
            ELSE value

(***************************************************************************)
(* Codec harness: the codec applied to one input value                     *)
(***************************************************************************)
Years == {<<"0", "0", "0", "0">>, <<"0", "9", "9", "9">>, <<"2", "0", "2", "4">>,
          <<"2", "0", "2", "5">>, <<"9", "9", "9", "9">>}
Months == {<<"0", "0">>, <<"0", "1">>, <<"0", "2">>, <<"1", "2">>, <<"1", "3">>}
Days == {<<"0", "0">>, <<"0", "1">>, <<"2", "9">>, <<"3", "0">>, <<"3", "1">>,
         <<"3", "2">>}
Hours == {<<"0", "0">>, <<"1", "7">>, <<"2", "3">>, <<"2", "4">>}
Minutes == {<<"0", "0">>, <<"2", "9">>, <<"6", "0">>}
Seconds == {<<"0", "0">>, <<"3", "3">>, <<"6", "0">>}
Millis == {<<>>, <<".", "0", "0", "0">>, <<".", "1", "9", "5">>}

DateTexts == {y \o <<"-">> \o m \o <<"-">> \o d : y \in Years, m \in Months, d \in Days}
TimeTexts == {h \o <<":">> \o m \o <<":">> \o s : h \in Hours, m \in Minutes, s \in Seconds}

\* wire texts: every combination of the fields above
IsoTexts == {d \o <<"T">> \o t \o ms \o <<"Z">> : d \in DateTexts, t \in TimeTexts, ms \in Millis}

SampleDate == <<"2", "0", "2", "5", "-", "1", "2", "-", "2", "9">>
SampleTime == <<"1", "7", ":", "2", "9", ":", "3", "3">>

\* backend texts: date-time and date-only
SheetsTexts == {SampleDate \o <<" ">> \o SampleTime, SampleDate,
                <<"0", "9", "9", "9", "-", "0", "1", "-", "0", "1">>,
                <<"0", "9", "9", "9", "-", "0", "1", "-", "0", "1", " ">> \o SampleTime}

\* texts that match none of the three patterns
OtherTexts == {<<>>, <<"x">>, <<"J", "o", "h", "n">>, <<"4", "2">>,
               SampleDate \o <<"x">>,
               <<"x">> \o SampleDate,
               SampleDate \o <<"T">> \o SampleTime,
               SampleDate \o <<"T">> \o SampleTime \o <<".", "1", "9", "Z">>,
               SampleDate \o <<"T">> \o SampleTime \o <<"Z", "x">>,
               SampleDate \o <<" ">> \o SampleTime \o <<"Z">>,
               SampleDate \o <<" ">> \o SampleTime \o <<" ">>,
               SampleDate \o <<" ", "1", "7", ":", "2", "9">>,
               <<"2", "5", "-", "1", "2", "-", "2", "9">>,
               <<"2", "0", "2", "5", "/", "1", "2", "/", "2", "9">>,
               <<"9", "9", "9", "-", "0", "1", "-", "0", "1", " ">> \o SampleTime,
               NaNText}

CodecInputs ==
  {Str(txt) : txt \in IsoTexts \cup SheetsTexts \cup OtherTexts}
    \cup {Null, Undefined, Num(<<"1">>), Num(<<"4", "2">>),
          Bool(<<"t", "r", "u", "e">>), Bool(<<"f", "a", "l", "s", "e">>)}

(***************************************************************************)
(* Spreadsheet backend (googleapis sheets v4), as the service uses it.     *)
(* A container is [list, cells].         A grid holds the populated       *)
(* extent of a sheet: values.get never returns trailing empty cells of a   *)
(* row nor trailing empty rows, so grids are kept trimmed.  A cell holds   *)
(* the value written to it; the empty string is the blank cell.            *)
(***************************************************************************)
Names == {"Users", "Tmp"}

RECURSIVE TrimRow(_)
TrimRow(row) ==
  IF row # <<>> /\ row[Len(row)] = EmptyStr
  THEN TrimRow(SubSeq(row, 1, Len(row) - 1)) ELSE row

RECURSIVE TrimTail(_)
TrimTail(grid) ==
  IF grid # <<>> /\ grid[Len(grid)] = <<>>
  THEN TrimTail(SubSeq(grid, 1, Len(grid) - 1)) ELSE grid

TrimGrid(grid) == TrimTail([i \in 1..Len(grid) |-> TrimRow(grid[i])])

SheetExists(c, name) == \E i \in 1..Len(c.list) : c.list[i].title = name

Call(api, name, row, values, sheetId) ==
  [api |-> api, title |-> name, row |-> row, values |-> values, sheetId |-> sheetId]

\* spreadsheets.values.get over the whole sheet (row = 0) or over row:row;
\* the reply has no values when the range holds no populated cell
ValuesGet(grid, row) ==
  IF row = 0 THEN grid
  ELSE IF row <= Len(grid) /\ grid[row] # <<>> THEN <<grid[row]>> ELSE <<>>

\* spreadsheets.values.update of row:row with one row of values: the cells
\* given are overwritten, cells to their right are left alone
ValuesUpdate(grid, row, values) ==
  LET old == IF row <= Len(grid) THEN grid[row] ELSE <<>>
      new == values \o SubSeq(old, Len(values) + 1, Len(old))
      n   == IF row > Len(grid) THEN row ELSE Len(grid)
  IN TrimGrid([i \in 1..n |-> IF i = row THEN new
                               ELSE IF i <= Len(grid) THEN grid[i] ELSE <<>>])

\* variant: the reply always reports the first data row
AppendedRow_First(grid) == 2

\* spreadsheets.values.append with INSERT_ROWS: the row goes after the last
\* populated row; the reply reports the row the values were placed at
AppendedRow(grid) == Len(grid) + 1

ValuesAppend(grid, values) == TrimGrid(Append(grid, values))

\* the column letter of the last column of a reported range
ColumnLetter(n) == CASE n = 1 -> "A" [] n = 2 -> "B" [] n = 3 -> "C" [] OTHER -> "D"

\* updates.updatedRange of the append reply; absent when no cell was sent
UpdatedRange(row, ncols) ==
  IF ncols = 0 THEN <<>>
  ELSE <<"!", "A">> \o ToText(row)
         \o (IF ncols > 1 THEN <<":", ColumnLetter(ncols)>> \o ToText(row) ELSE <<>>)

\* batchUpdate deleteDimension ROWS [startIndex, endIndex), 0-based
DeleteDimension(grid, startIndex, endIndex) ==
  LET keep == {i \in 1..Len(grid) : ~(i > startIndex /\ i <= endIndex)}
      pos(k) == CHOOSE i \in keep : Cardinality({j \in keep : j <= i}) = k
  IN TrimGrid([k \in 1..Cardinality(keep) |-> grid[pos(k)]])

(***************************************************************************)
(* JavaScript objects (RowData): a sequence of <<key, value>> pairs in     *)
(* property order, keys being texts                                        *)
(***************************************************************************)
ObjKeys(obj) == [i \in 1..Len(obj) |-> obj[i][1]]

ObjHas(obj, k) == \E i \in 1..Len(obj) : obj[i][1] = k

\* obj[k]; undefined for a key the object lacks
ObjGet(obj, k) ==
  IF ObjHas(obj, k) THEN obj[CHOOSE i \in 1..Len(obj) : obj[i][1] = k][2]
  ELSE Undefined

\* obj[k] = v
ObjSet(obj, k, v) ==
  IF ObjHas(obj, k)
  THEN [i \in 1..Len(obj) |-> IF obj[i][1] = k THEN <<k, v>> ELSE obj[i]]
  ELSE Append(obj, <<k, v>>)

\* row[index] of a JavaScript array, 1-based here
At(row, i) == IF i <= Len(row) THEN row[i] ELSE Undefined

(***************************************************************************)
(* Sheets service (the mapper).  Every operation yields                    *)
(* [ok, val, c, calls, err]: whether it returned or threw, the value       *)
(* returned, the container afterwards, the backend calls it issued and     *)
(* the message of the error thrown.                                        *)
(***************************************************************************)
Ok(val, c, calls) == [ok |-> TRUE, val |-> val, c |-> c, calls |-> calls, err |-> <<>>]
Throw(err, c, calls) == [ok |-> FALSE, val |-> Null, c |-> c, calls |-> calls, err |-> err]

\* the backend fails the at-th call of an operation with the message err;
\* at = 0: no call fails
Fault(at, err) == [at |-> at, err |-> err]
NoFault == Fault(0, <<>>)

\* variant: the failed call is issued a second time
Faulty_Retry(r, f, c0, cLast) ==
  IF f.at = 0 \/ f.at > Len(r.calls) THEN r
  ELSE [ok |-> FALSE, val |-> [t |-> "null", s |-> <<>>],
        c |-> IF f.at = Len(r.calls) THEN cLast ELSE c0,
        calls |-> Append(SubSeq(r.calls, 1, f.at), r.calls[f.at]), err |-> f.err]

\* variant: the operation goes on after the failed call
Faulty_Continue(r, f, c0, cLast) ==
  IF f.at = 0 \/ f.at > Len(r.calls) THEN r
  ELSE [ok |-> FALSE, val |-> [t |-> "null", s |-> <<>>], c |-> cLast,
        calls |-> r.calls, err |-> f.err]

\* r is the outcome of an operation on a backend that fails no call.  When
\* the backend fails call f.at, the awaited promise rejects: the operation
\* stops there, c0 being the container before the operation and cLast the
\* container before its last call.
Faulty(r, f, c0, cLast) ==
  IF f.at = 0 \/ f.at > Len(r.calls) THEN r
  ELSE Throw(f.err, IF f.at = Len(r.calls) THEN cLast ELSE c0, SubSeq(r.calls, 1, f.at))

\* the error of a values call whose range names no sheet of the container
RangeError(name) == <<"Unable to parse range: ", name>>
\* new Error(`Sheet "${sheetName}" not found`)
NotFoundError(name) == <<"Sheet \"", name, "\" not found">>
\* the error of addSheet with a title already in the container
DuplicateError(name) == <<"A sheet with the name \"", name, "\" already exists">>

listSheets(c) ==
  Ok([i \in 1..Len(c.list) |->
        [sheetId |-> c.list[i].sheetId, title |-> c.list[i].title, index |-> i - 1]],
     c, <<Call("spreadsheets.get", "", 0, <<>>, -1)>>)

\* the identifier the backend gives a new sheet: one no sheet of the
\* container has
FreshId(c) ==
  CHOOSE id \in 0..Len(c.list) :
    /\ \A i \in 1..Len(c.list) : c.list[i].sheetId # id
    /\ \A j \in 0..(id - 1) : \E i \in 1..Len(c.list) : c.list[i].sheetId = j

createSheet(c, sheetName) ==
  LET call == Call("batchUpdate.addSheet", sheetName, 0, <<>>, -1) IN
  IF SheetExists(c, sheetName) THEN Throw(DuplicateError(sheetName), c, <<call>>)
  ELSE Ok([sheetId |-> FreshId(c), title |-> sheetName, index |-> Len(c.list)],
          [list |-> Append(c.list, [sheetId |-> FreshId(c), title |-> sheetName]),
           cells |-> [c.cells EXCEPT ![sheetName] = <<>>]],
          <<call>>)

\* variant: the first sheet is taken whatever its title
FindSheet_First(sheetsList, sheetName) == IF sheetsList = <<>> THEN 0 ELSE 1

\* sheetsList.find((s) => s.title === sheetName)
FindSheet(sheetsList, sheetName) ==
  LET hits == {i \in 1..Len(sheetsList) : sheetsList[i].title = sheetName} IN
  IF hits = {} THEN 0 ELSE CHOOSE i \in hits : \A j \in hits : i <= j

\* the container without the sheet that has this identifier
RemoveSheet(c, sheetId) ==
  LET keep == {i \in 1..Len(c.list) : c.list[i].sheetId # sheetId}
      pos(k) == CHOOSE i \in keep : Cardinality({j \in keep : j <= i}) = k
      gone == {c.list[i].title : i \in (1..Len(c.list)) \ keep}
  IN [list |-> [k \in 1..Cardinality(keep) |-> c.list[pos(k)]],
      cells |-> [n \in Names |-> IF n \in gone THEN <<>> ELSE c.cells[n]]]

\* variant: the sheet is deleted by its position instead of its identifier
deleteSheet_ByIndex(c, sheetName) ==
  LET l == listSheets(c)
      k == FindSheet(l.val, sheetName)
  IN IF k = 0 THEN Throw(NotFoundError(sheetName), c, l.calls)
     ELSE Ok(Null, RemoveSheet(c, l.val[k].index),
             Append(l.calls, Call("batchUpdate.deleteSheet", "", 0, <<>>, l.val[k].index)))

deleteSheet(c, sheetName) ==
  LET l == listSheets(c)
      k == FindSheet(l.val, sheetName)
  IN IF k = 0 THEN Throw(NotFoundError(sheetName), c, l.calls)
     ELSE Ok(Null, RemoveSheet(c, l.val[k].sheetId),
             Append(l.calls, Call("batchUpdate.deleteSheet", "", 0, <<>>, l.val[k].sheetId)))

\* variant: the header row is never read as present
getSchema_Blind(c, sheetName) ==
  LET call == Call("values.get", sheetName, 1, <<>>, -1) IN
  IF ~SheetExists(c, sheetName) THEN Throw(RangeError(sheetName), c, <<call>>)
  ELSE Ok(<<>>, c, <<call>>)

getSchema(c, sheetName) ==
  LET call == Call("values.get", sheetName, 1, <<>>, -1) IN
  IF ~SheetExists(c, sheetName) THEN Throw(RangeError(sheetName), c, <<call>>)
  ELSE LET values == ValuesGet(c.cells[sheetName], 1)
           headers == IF values = <<>> THEN <<>> ELSE values[1]
       IN Ok([i \in 1..Len(headers) |-> headers[i].s], c, <<call>>)

RECURSIVE ZipRow(_, _, _)
\* headers.forEach((header, index) => obj[header] = formatValueFromSheets(row[index]))
\* the object after the first i headers
ZipRow(headers, row, i) ==
  IF i = 0 THEN <<>>
  ELSE ObjSet(ZipRow(headers, row, i - 1), headers[i], formatValueFromSheets(At(row, i)))

\* variant: the cells are returned without the inbound codec
getRows_Raw(c, sheetName) ==
  LET call == Call("values.get", sheetName, 0, <<>>, -1) IN
  IF ~SheetExists(c, sheetName) THEN Throw(RangeError(sheetName), c, <<call>>)
  ELSE LET values == ValuesGet(c.cells[sheetName], 0) IN
       IF Len(values) < 2 THEN Ok(<<>>, c, <<call>>)
       ELSE LET headers == [i \in 1..Len(values[1]) |-> values[1][i].s]
                rows == Tail(values)
            IN Ok([r \in 1..Len(rows) |->
                     Obj([i \in 1..Len(headers) |->
                            <<headers[i], IF i <= Len(rows[r]) THEN rows[r][i] ELSE Null>>])],
                  c, <<call>>)

\* variant: rows without values are left out of the list
getRows_SkipEmpty(c, sheetName) ==
  LET call == Call("values.get", sheetName, 0, <<>>, -1) IN
  IF ~SheetExists(c, sheetName) THEN Throw(RangeError(sheetName), c, <<call>>)
  ELSE LET values == ValuesGet(c.cells[sheetName], 0) IN
       IF Len(values) < 2 THEN Ok(<<>>, c, <<call>>)
       ELSE LET headers == [i \in 1..Len(values[1]) |-> values[1][i].s]
                rows == SelectSeq(Tail(values), LAMBDA row : row # <<>>)
            IN Ok([r \in 1..Len(rows) |-> Obj(ZipRow(headers, rows[r], Len(headers)))],
                  c, <<call>>)

getRows(c, sheetName) ==
  LET call == Call("values.get", sheetName, 0, <<>>, -1) IN
  IF ~SheetExists(c, sheetName) THEN Throw(RangeError(sheetName), c, <<call>>)
  ELSE LET values == ValuesGet(c.cells[sheetName], 0) IN
       IF Len(values) < 2 THEN Ok(<<>>, c, <<call>>)
       ELSE LET headers == [i \in 1..Len(values[1]) |-> values[1][i].s]
                rows == Tail(values)
            IN Ok([r \in 1..Len(rows) |-> Obj(ZipRow(headers, rows[r], Len(headers)))],
                  c, <<call>>)

\* variant: a row without values is zipped like any other
getRow_NoNullCheck(c, sheetName, rowIndex) ==
  LET h == getSchema(c, sheetName)
      call == Call("values.get", sheetName, rowIndex, <<>>, -1)
  IN IF ~h.ok THEN h
     ELSE LET values == ValuesGet(c.cells[sheetName], rowIndex)
              row == IF values = <<>> THEN <<>> ELSE values[1]
          IN Ok(Obj(ZipRow(h.val, row, Len(h.val))), c, Append(h.calls, call))

getRow(c, sheetName, rowIndex) ==
  LET h == getSchema(c, sheetName)
      call == Call("values.get", sheetName, rowIndex, <<>>, -1)
  IN IF ~h.ok THEN h
     ELSE LET values == ValuesGet(c.cells[sheetName], rowIndex) IN
          IF values = <<>> THEN Ok(Null, c, Append(h.calls, call))
          ELSE Ok(Obj(ZipRow(h.val, values[1], Len(h.val))), c, Append(h.calls, call))

\* variant: the row is made of the values of data, in the order of its keys
RowValues_DataOrder(headers, data, len) ==
  [i \in 1..Len(data) |-> formatValueForSheets(data[i][2], len)]

\* variant: a header that is no key of data gets no cell
RowValues_SkipMissing(headers, data, len) ==
  LET present == SelectSeq(headers, LAMBDA h : ObjHas(data, h))
  IN [i \in 1..Len(present) |-> formatValueForSheets(ObjGet(data, present[i]), len)]

\* headers.map((header) => formatValueForSheets(data[header]))
RowValues(headers, data, len) ==
  [i \in 1..Len(headers) |-> formatValueForSheets(ObjGet(data, headers[i]), len)]

RECURSIVE TrailingDigits(_)
\* the longest run of digits a text ends with
TrailingDigits(txt) ==
  IF txt # <<>> /\ txt[Len(txt)] \in Digits
  THEN Append(TrailingDigits(SubSeq(txt, 1, Len(txt) - 1)), txt[Len(txt)])
  ELSE <<>>

\* variant: a row number is taken only from a range that has a colon
ParseRowIndex_AfterColon(updatedRange) ==
  IF (\E i \in 1..Len(updatedRange) : updatedRange[i] = ":")
       /\ TrailingDigits(updatedRange) # <<>>
  THEN ParseInt(TrailingDigits(updatedRange)) ELSE -1

\* variant: the reported row is taken as 0-based
ParseRowIndex_ZeroBased(updatedRange) ==
  IF TrailingDigits(updatedRange) = <<>> THEN -1
  ELSE ParseInt(TrailingDigits(updatedRange)) - 1

\* updatedRange.match(/:?(\d+)$/) ? parseInt(match[1], 10) : -1
ParseRowIndex(updatedRange) ==
  IF TrailingDigits(updatedRange) = <<>> THEN -1
  ELSE ParseInt(TrailingDigits(updatedRange))

appendRow(c, sheetName, data, len) ==
  LET h == getSchema(c, sheetName) IN
  IF ~h.ok THEN h
  ELSE LET create == (Len(h.val) = 0)
           headers == IF create THEN ObjKeys(data) ELSE h.val
           hcells == [i \in 1..Len(headers) |-> Str(headers[i])]
           g0 == c.cells[sheetName]
           g1 == IF create THEN ValuesUpdate(g0, 1, hcells) ELSE g0
           hcall == IF create THEN <<Call("values.update", sheetName, 1, hcells, -1)>>
                    ELSE <<>>
           rowValues == RowValues(headers, data, len)
           g2 == ValuesAppend(g1, rowValues)
           updatedRange == UpdatedRange(AppendedRow(g1), Len(rowValues))
       IN Ok([rowIndex |-> ParseRowIndex(updatedRange)],
             [c EXCEPT !.cells[sheetName] = g2],
             h.calls \o hcall \o <<Call("values.append", sheetName, 0, rowValues, -1)>>)

\* variant: the header write leaves no trace
BeforeAppend_Unwritten(c, sheetName, data) == c

\* the container between the header write of appendRow and its append
BeforeAppend(c, sheetName, data) ==
  LET h == getSchema(c, sheetName) IN
  IF h.ok /\ Len(h.val) = 0
  THEN [c EXCEPT !.cells[sheetName] =
          ValuesUpdate(@, 1, [i \in 1..Len(data) |-> Str(ObjKeys(data)[i])])]
  ELSE c

\* variant: only the cells of the keys data has are written (a patch)
updateRow_Patch(c, sheetName, rowIndex, data, len) ==
  LET h == getSchema(c, sheetName) IN
  IF ~h.ok THEN h
  ELSE LET g == c.cells[sheetName]
           old == IF rowIndex \in 1..Len(g) THEN g[rowIndex] ELSE <<>>
           rowValues == [i \in 1..Len(h.val) |->
                           IF ObjHas(data, h.val[i])
                           THEN formatValueForSheets(ObjGet(data, h.val[i]), len)
                           ELSE IF i <= Len(old) THEN old[i] ELSE EmptyStr]
       IN Ok(Null,
             [c EXCEPT !.cells[sheetName] = ValuesUpdate(@, rowIndex, rowValues)],
             Append(h.calls, Call("values.update", sheetName, rowIndex, rowValues, -1)))

\* variant: a row beyond the last populated row is not written
updateRow_ExistingOnly(c, sheetName, rowIndex, data, len) ==
  LET h == getSchema(c, sheetName) IN
  IF ~h.ok THEN h
  ELSE LET rowValues == [i \in 1..Len(h.val) |->
                           formatValueForSheets(ObjGet(data, h.val[i]), len)]
           call == Call("values.update", sheetName, rowIndex, rowValues, -1)
       IN IF rowIndex > Len(c.cells[sheetName]) THEN Ok(Null, c, Append(h.calls, call))
          ELSE Ok(Null,
                  [c EXCEPT !.cells[sheetName] = ValuesUpdate(@, rowIndex, rowValues)],
                  Append(h.calls, call))

updateRow(c, sheetName, rowIndex, data, len) ==
  LET h == getSchema(c, sheetName) IN
  IF ~h.ok THEN h
  ELSE LET rowValues == RowValues(h.val, data, len) IN
       Ok(Null,
          [c EXCEPT !.cells[sheetName] = ValuesUpdate(@, rowIndex, rowValues)],
          Append(h.calls, Call("values.update", sheetName, rowIndex, rowValues, -1)))

\* the title of the sheet that has this identifier
TitleOf(c, sheetId) ==
  c.list[CHOOSE i \in 1..Len(c.list) : c.list[i].sheetId = sheetId].title

\* variant: the 1-based row index is used as the 0-based start
DeleteRange_OneBased(rowIndex) == <<rowIndex, rowIndex + 1>>

\* deleteDimension range {sheetId, ROWS, startIndex, endIndex}
DeleteRange(rowIndex) == <<rowIndex - 1, rowIndex>>

deleteRow(c, sheetName, rowIndex) ==
  LET l == listSheets(c)
      k == FindSheet(l.val, sheetName)
  IN IF k = 0 THEN Throw(NotFoundError(sheetName), c, l.calls)
     ELSE LET id == l.val[k].sheetId
              rg == DeleteRange(rowIndex)
          IN Ok(Null,
                [c EXCEPT !.cells[TitleOf(c, id)] = DeleteDimension(@, rg[1], rg[2])],
                Append(l.calls, Call("batchUpdate.deleteDimension", "", 0, rg, id)))

(***************************************************************************)
(* Express routes; a route evaluates its service call r once, against the  *)
(* backend fault of the request (fault').  A request is                    *)
(* [op, name, param, data]; a response is [status, body] with body         *)
(* [kind, val].  The body of POST and PUT is what express.json() parsed,   *)
(* which is always an object.                                              *)
(***************************************************************************)
Request(op, name, param, data) == [op |-> op, name |-> name, param |-> param, data |-> data]
Response(status, kind, val) == [status |-> status, body |-> [kind |-> kind, val |-> val]]

\* parseInt(text, 10): the integer a text starts with, NaN when it starts with none
LeadingDigits(txt) ==
  LET n == IF \E i \in 1..Len(txt) : txt[i] \notin Digits
           THEN (CHOOSE i \in 1..Len(txt) :
                   txt[i] \notin Digits /\ \A j \in 1..(i - 1) : txt[j] \in Digits) - 1
           ELSE Len(txt)
  IN SubSeq(txt, 1, n)

parseInt(txt) ==
  IF LeadingDigits(txt) = <<>> THEN [nan |-> TRUE, n |-> 0]
  ELSE [nan |-> FALSE, n |-> ParseInt(LeadingDigits(txt))]

\* variant: row 1 is accepted
InvalidRowIndex_FromOne(index) == index.nan \/ index.n < 1

\* isNaN(index) || index < 2
InvalidRowIndex(index) == index.nan \/ index.n < 2

InvalidRowIndexBody == "Invalid rowIndex. Must be >= 2 (row 1 contains headers)"

\* variant: no message is taken as a not-found
IncludesNotFound_Never(err) == FALSE

\* variant: only the message of the service's own not-found is matched
IncludesNotFound_SheetOnly(err) == Len(err) = 3 /\ err[1] = "Sheet \"" /\ err[3] = "\" not found"

\* message.includes('not found')
IncludesNotFound(err) == \E i \in 1..Len(err) : err[i] \in {"\" not found", " not found"}

C == [list |-> sheetList, cells |-> cells]

\* the number of populated rows of the container
TotalRows(c) == Len(c.cells["Users"]) + Len(c.cells["Tmp"])

\* the container after the request, within the bounds of the model
Store(c) ==
  /\ TotalRows(c) <= MaxRows
  /\ sheetList' = c.list
  /\ cells' = c.cells

\* catch (error) { res.status(500).json({ error: message }) }
Error500(r) == Response(500, "error", r.err)

GetRowsRoute(name) ==
  \E r \in {Faulty(getRows(C, name), fault', C, C)} :
  /\ req' = Request("GET rows", name, <<>>, <<>>)
  /\ resp' = IF r.ok THEN Response(200, "rows", r.val) ELSE Error500(r)
  /\ backendCalls' = r.calls
  /\ Store(r.c)
  /\ UNCHANGED <<lenient, cin, cout, cop, appends>>

GetRowRoute(name, param) ==
  \E index \in {parseInt(param)} : \E r \in {Faulty(getRow(C, name, index.n), fault', C, C)} :
     /\ req' = Request("GET row", name, param, <<>>)
     /\ IF InvalidRowIndex(index)
        THEN /\ resp' = Response(400, "error", InvalidRowIndexBody)
             /\ backendCalls' = <<>>
             /\ Store(C)
        ELSE /\ resp' = IF ~r.ok THEN Error500(r)
                        ELSE IF r.val = Null THEN Response(404, "error", "Row not found")
                        ELSE Response(200, "row", r.val)
             /\ backendCalls' = r.calls
             /\ Store(r.c)
     /\ UNCHANGED <<lenient, cin, cout, cop, appends>>

PostRowRoute(name, data) ==
  \E r \in {Faulty(appendRow(C, name, data, lenient), fault', C,
                   BeforeAppend(C, name, data))} :
  /\ req' = Request("POST row", name, <<>>, data)
  /\ resp' = IF r.ok THEN Response(201, "rowIndex", r.val.rowIndex) ELSE Error500(r)
  /\ backendCalls' = r.calls
  /\ Store(r.c)
  /\ UNCHANGED <<lenient, cin, cout, cop, appends>>

PutRowRoute(name, param, data) ==
  \E index \in {parseInt(param)} : \E r \in {Faulty(updateRow(C, name, index.n, data, lenient), fault', C, C)} :
     /\ req' = Request("PUT row", name, param, data)
     /\ IF InvalidRowIndex(index)
        THEN /\ resp' = Response(400, "error", InvalidRowIndexBody)
             /\ backendCalls' = <<>>
             /\ Store(C)
        ELSE /\ resp' = IF r.ok THEN Response(204, "none", Null) ELSE Error500(r)
             /\ backendCalls' = r.calls
             /\ Store(r.c)
     /\ UNCHANGED <<lenient, cin, cout, cop, appends>>

DeleteRowRoute(name, param) ==
  \E index \in {parseInt(param)} : \E r \in {Faulty(deleteRow(C, name, index.n), fault', C, C)} :
     /\ req' = Request("DELETE row", name, param, <<>>)
     /\ IF InvalidRowIndex(index)
        THEN /\ resp' = Response(400, "error", InvalidRowIndexBody)
             /\ backendCalls' = <<>>
             /\ Store(C)
        ELSE /\ resp' = IF r.ok THEN Response(204, "none", Null) ELSE Error500(r)
             /\ backendCalls' = r.calls
             /\ Store(r.c)
     /\ UNCHANGED <<lenient, cin, cout, cop, appends>>

ListSheetsRoute ==
  \E r \in {Faulty(listSheets(C), fault', C, C)} :
  /\ req' = Request("GET sheets", "", <<>>, <<>>)
  /\ resp' = IF r.ok THEN Response(200, "sheets", r.val) ELSE Error500(r)
  /\ backendCalls' = r.calls
  /\ Store(r.c)
  /\ UNCHANGED <<lenient, cin, cout, cop, appends>>

\* the name field of the body is a non-empty string here
CreateSheetRoute(name) ==
  \E r \in {Faulty(createSheet(C, name), fault', C, C)} :
  /\ req' = Request("POST sheet", name, <<>>, <<>>)
  /\ resp' = IF r.ok THEN Response(201, "sheet", r.val) ELSE Error500(r)
  /\ backendCalls' = r.calls
  /\ Store(r.c)
  /\ UNCHANGED <<lenient, cin, cout, cop, appends>>

DeleteSheetRoute(name) ==
  \E r \in {Faulty(deleteSheet(C, name), fault', C, C)} :
  /\ req' = Request("DELETE sheet", name, <<>>, <<>>)
  /\ resp' = IF r.ok THEN Response(204, "none", Null)
             ELSE IF IncludesNotFound(r.err) THEN Response(404, "error", r.err)
             ELSE Error500(r)
  /\ backendCalls' = r.calls
  /\ Store(r.c)
  /\ UNCHANGED <<lenient, cin, cout, cop, appends>>

GetSchemaRoute(name) ==
  \E r \in {Faulty(getSchema(C, name), fault', C, C)} :
  /\ req' = Request("GET schema", name, <<>>, <<>>)
  /\ resp' = IF r.ok THEN Response(200, "columns", r.val) ELSE Error500(r)
  /\ backendCalls' = r.calls
  /\ Store(r.c)
  /\ UNCHANGED <<lenient, cin, cout, cop, appends>>

(***************************************************************************)
(* Inputs of the requests                                                  *)
(***************************************************************************)
KeyId == <<"i", "d">>
KeyTs == <<"t", "s">>
KeyZz == <<"z", "z">>

SampleIso == SampleDate \o <<"T">> \o SampleTime \o <<".", "1", "9", "5", "Z">>
One == Num(<<"1">>)

\* request bodies: no property; two properties; one of them and one more;
\* blank values only; a boolean and a date-only string
DataSet ==
  {<<>>,
   <<<<KeyTs, Str(SampleIso)>>, <<KeyId, One>>>>,
   <<<<KeyZz, Str(<<"x">>)>>, <<KeyId, Num(<<"2">>)>>>>,
   <<<<KeyId, Null>>, <<KeyTs, EmptyStr>>>>,
   <<<<KeyId, Bool(<<"t", "r", "u", "e">>)>>, <<KeyTs, Str(SampleDate)>>>>}

\* the :rowIndex path parameter
RowParams == {ToText(i) : i \in 1..MaxRows} \cup {<<"a", "b", "c">>}

\* a sheet somebody filled in by hand, with a row longer than the header row
HandMadeGrid ==
  <<<<Str(KeyId), Str(KeyTs)>>,
    <<One, Str(SampleDate \o <<" ">> \o SampleTime), Str(<<"x">>)>>>>

InitGrids == {<<>>, HandMadeGrid}

\* the appendRow calls of the step-wise model: as many as data rows fit
Procs == 1..(MaxRows - 1)

\* a call that has not started: [pc, data, headers, created, rowIndex,
\* overlapped]
IdleAppend ==
  [pc |-> "idle", data |-> <<>>, headers |-> <<>>, created |-> FALSE, rowIndex |-> 0,
   overlapped |-> FALSE]

NoAppends == [p \in Procs |-> IdleAppend]

Idle == Request("none", "", <<>>, <<>>)

\* header values: absent, empty, the identifier of the spreadsheet
NoHeader == Undefined
SpreadsheetId == Str(<<"i", "d", "1">>)
Headers == {NoHeader, EmptyStr, SpreadsheetId}

Init ==
  /\ sheetList = <<[sheetId |-> 0, title |-> "Users"]>>
  /\ \E g \in InitGrids : cells = [n \in Names |-> IF n = "Users" THEN g ELSE <<>>]
  /\ req = Idle
  /\ resp = Response(0, "none", Null)
  /\ backendCalls = <<>>
  /\ lenient = TRUE
  /\ cin = Null
  /\ cout = Null
  /\ cop = "none"
  /\ header = SpreadsheetId
  /\ fault = NoFault
  /\ appends = NoAppends

\* here every request carries the header and the backend fails no call
Next ==
  /\ UNCHANGED <<header, fault>>
  /\ \/ \E name \in Names : GetRowsRoute(name)
     \/ \E name \in Names, param \in RowParams : GetRowRoute(name, param)
     \/ \E name \in Names, data \in DataSet : PostRowRoute(name, data)
     \/ \E name \in Names, param \in RowParams, data \in DataSet : PutRowRoute(name, param, data)
     \/ \E name \in Names, param \in RowParams : DeleteRowRoute(name, param)
     \/ ListSheetsRoute
     \/ \E name \in Names : CreateSheetRoute(name)
     \/ \E name \in Names : DeleteSheetRoute(name)
     \/ \E name \in Names : GetSchemaRoute(name)

Spec == Init /\ [][Next]_vars

\* the requests on the rows and the schema of a fixed set of sheets
RowsNext ==
  /\ UNCHANGED <<header, fault>>
  /\ \/ \E name \in Names : GetRowsRoute(name)
     \/ \E name \in Names, param \in RowParams : GetRowRoute(name, param)
     \/ \E name \in Names, data \in DataSet : PostRowRoute(name, data)
     \/ \E name \in Names, param \in RowParams, data \in DataSet : PutRowRoute(name, param, data)
     \/ \E name \in Names, param \in RowParams : DeleteRowRoute(name, param)
     \/ ListSheetsRoute
     \/ \E name \in Names : GetSchemaRoute(name)

RowsSpec == Init /\ [][RowsNext]_vars

(***************************************************************************)
(* The whole application: the header check in front of the routers, the   *)
(* health route, and a backend that may fail a call.  Requests are served  *)
(* one at a time; Finish ends the request in progress.                     *)
(***************************************************************************)
\* the most backend calls one operation issues (appendRow on a sheet
\* without headers: values.get, values.update, values.append)
MaxCalls == 3

ApiError == <<"API Error">>
EntityNotFound == <<"Requested entity was", " not found", ".">>

Faults ==
  {NoFault} \cup {Fault(k, ApiError) : k \in 1..MaxCalls} \cup {Fault(k, EntityNotFound) : k \in 1..2}

\* request bodies: no property; one property; two properties
ApiData ==
  {<<>>,
   <<<<KeyId, One>>>>,
   <<<<KeyTs, Str(SampleIso)>>, <<KeyId, One>>>>}

\* the :rowIndex path parameter, with a text that only starts with a number
ApiParams == {<<"1">>, <<"2">>, <<"a", "b", "c">>, <<"2", "x">>}

MissingHeaderBody == "Missing required header: X-Spreadsheet-Id"

\* variant: an empty header value is let through
spreadsheetIdMiddleware_AcceptEmpty(h, f, request, route) ==
  /\ header' = h
  /\ IF h.t # "str"
     THEN /\ f = NoFault
          /\ fault' = NoFault
          /\ req' = request
          /\ resp' = Response(400, "error", MissingHeaderBody)
          /\ backendCalls' = <<>>
          /\ UNCHANGED <<sheetList, cells, lenient, cin, cout, cop, appends>>
     ELSE /\ fault' = f
          /\ route

\* if (!spreadsheetId || typeof spreadsheetId !== 'string') 400 else next()
spreadsheetIdMiddleware(h, f, request, route) ==
  /\ header' = h
  /\ IF ~(h.t = "str" /\ h.s # <<>>)
     THEN /\ f = NoFault
          /\ fault' = NoFault
          /\ req' = request
          /\ resp' = Response(400, "error", MissingHeaderBody)
          /\ backendCalls' = <<>>
          /\ UNCHANGED <<sheetList, cells, lenient, cin, cout, cop, appends>>
     ELSE /\ fault' = f
          /\ route

\* app.get('/health', ...): mounted without the middleware
HealthRoute(h) ==
  /\ header' = h
  /\ fault' = NoFault
  /\ req' = Request("GET health", "", <<>>, <<>>)
  /\ resp' = Response(200, "status", "ok")
  /\ backendCalls' = <<>>
  /\ UNCHANGED <<sheetList, cells, lenient, cin, cout, cop, appends>>

\* the response has been sent
Finish ==
  /\ req # Idle
  /\ req' = Idle
  /\ resp' = Response(0, "none", Null)
  /\ backendCalls' = <<>>
  /\ header' = SpreadsheetId
  /\ fault' = NoFault
  /\ UNCHANGED <<sheetList, cells, lenient, cin, cout, cop, appends>>

ApiRequest(h, f) ==
  \/ \E name \in Names :
       spreadsheetIdMiddleware(h, f, Request("GET rows", name, <<>>, <<>>),
                               GetRowsRoute(name))
  \/ \E name \in Names, param \in ApiParams :
       spreadsheetIdMiddleware(h, f, Request("GET row", name, param, <<>>),
                               GetRowRoute(name, param))
  \/ \E name \in Names, data \in ApiData :
       spreadsheetIdMiddleware(h, f, Request("POST row", name, <<>>, data),
                               PostRowRoute(name, data))
  \/ \E name \in Names, param \in ApiParams, data \in ApiData :
       spreadsheetIdMiddleware(h, f, Request("PUT row", name, param, data),
                               PutRowRoute(name, param, data))
  \/ \E name \in Names, param \in ApiParams :
       spreadsheetIdMiddleware(h, f, Request("DELETE row", name, param, <<>>),
                               DeleteRowRoute(name, param))
  \/ spreadsheetIdMiddleware(h, f, Request("GET sheets", "", <<>>, <<>>), ListSheetsRoute)
  \/ \E name \in Names :
       spreadsheetIdMiddleware(h, f, Request("POST sheet", name, <<>>, <<>>),
                               CreateSheetRoute(name))
  \/ \E name \in Names :
       spreadsheetIdMiddleware(h, f, Request("DELETE sheet", name, <<>>, <<>>),
                               DeleteSheetRoute(name))
  \/ \E name \in Names :
       spreadsheetIdMiddleware(h, f, Request("GET schema", name, <<>>, <<>>),
                               GetSchemaRoute(name))

ApiNext ==
  \/ req = Idle /\ \E h \in Headers, f \in Faults : ApiRequest(h, f)
  \/ req = Idle /\ \E h \in Headers : HealthRoute(h)
  \/ Finish

ApiSpec == Init /\ [][ApiNext]_vars

(***************************************************************************)
(* Codec harness                                                           *)
(***************************************************************************)
CodecInit ==
  /\ sheetList = <<[sheetId |-> 0, title |-> "Users"]>>
  /\ cells = [n \in Names |-> <<>>]
  /\ req = Idle
  /\ resp = Response(0, "none", Null)
  /\ backendCalls = <<>>
  /\ lenient \in BOOLEAN
  /\ cin \in CodecInputs
  /\ cout = Null
  /\ cop = "none"
  /\ header = SpreadsheetId
  /\ fault = NoFault
  /\ appends = NoAppends

ForSheets ==
  /\ cop' = "forSheets"
  /\ cout' = formatValueForSheets(cin, lenient)
  /\ UNCHANGED <<sheetList, cells, req, resp, backendCalls, lenient, cin, header, fault, appends>>

FromSheets ==
  /\ cop' = "fromSheets"
  /\ cout' = formatValueFromSheets(cin)
  /\ UNCHANGED <<sheetList, cells, req, resp, backendCalls, lenient, cin, header, fault, appends>>

RoundTrip ==
  /\ cop' = "roundTrip"
  /\ cout' = formatValueFromSheets(formatValueForSheets(cin, lenient))
  /\ UNCHANGED <<sheetList, cells, req, resp, backendCalls, lenient, cin, header, fault, appends>>

CodecNext == ForSheets \/ FromSheets \/ RoundTrip

CodecSpec == CodecInit /\ [][CodecNext]_vars

(***************************************************************************)
(* Properties of the codec (checked under CodecSpec)                       *)
(***************************************************************************)
IsWireIso(v) == v.t = "str" /\ ISO_DATE_REGEX(v.s)

Recognized(txt) ==
  ISO_DATE_REGEX(txt) \/ SHEETS_DATETIME_REGEX(txt) \/ SHEETS_DATE_REGEX(txt)

Millis000 == <<".", "0", "0", "0", "Z">>

\* C4: for every string t that matches the wire ISO pattern and has the
\* millisecond component .000, formatValueFromSheets(formatValueForSheets(t))
\* is t.
C4_RoundTripIdentity ==
  (cop = "roundTrip" /\ IsWireIso(cin) /\ Len(cin.s) = 24
     /\ SubSeq(cin.s, 20, 24) = Millis000)
    => cout = cin

\* C5: for every wire ISO timestamp whose milliseconds are not .000 or are
\* absent, the round trip wire -> backend -> wire yields the same date, hour,
\* minute and second with the milliseconds fixed at .000.
C5_RoundTripNormalizes ==
  (cop = "roundTrip" /\ IsWireIso(cin)
     /\ (Len(cin.s) = 20 \/ SubSeq(cin.s, 20, 24) # Millis000))
    => cout = Str(SubSeq(cin.s, 1, 19) \o Millis000)

\* C6 as stated: for all strings s matching none of the three date patterns,
\* formatValueForSheets(s) = s and formatValueFromSheets(s) = s.
C6_Original ==
  (cop \in {"forSheets", "fromSheets"} /\ cin.t = "str" /\ ~Recognized(cin.s))
    => cout = cin

\* C6 amended: for all non-empty strings s matching none of the three date
\* patterns, formatValueForSheets(s) = s and formatValueFromSheets(s) = s;
\* the empty string is unchanged by formatValueForSheets and becomes null in
\* formatValueFromSheets.
C6_Passthrough ==
  (cop \in {"forSheets", "fromSheets"} /\ cin.t = "str" /\ ~Recognized(cin.s))
    => IF cin.s = <<>> /\ cop = "fromSheets" THEN cout = Null ELSE cout = cin

\* a string with a date prefix and a trailing character went through
\* formatValueFromSheets unchanged
C6_Witness ==
  /\ cop = "fromSheets"
  /\ cin = Str(SampleDate \o <<"x">>)
  /\ cout = cin

(***************************************************************************)
(* Properties of the mapper and the routes (checked under RowsSpec)        *)
(***************************************************************************)
\* the container after the step
CNext == [list |-> sheetList', cells |-> cells']

\* a value the outbound codec turns into a blank cell
IsBlank(v) == v \in {Null, Undefined, EmptyStr}

\* row n of a grid, empty when the grid has no such row
RowOf(grid, n) == IF n <= Len(grid) THEN grid[n] ELSE <<>>

RemoveAt(seq, k) == SubSeq(seq, 1, k - 1) \o SubSeq(seq, k + 1, Len(seq))

\* wire -> backend -> wire
RoundTripOf(v) == formatValueFromSheets(formatValueForSheets(v, lenient))

\* the cells of a record in the order of its keys
OwnCells(data) == [i \in 1..Len(data) |-> formatValueForSheets(data[i][2], lenient)]

\* the cells of a record projected onto a header row
Projected(headers, data) ==
  [i \in 1..Len(headers) |->
     IF ObjHas(data, headers[i])
     THEN formatValueForSheets(ObjGet(data, headers[i]), lenient) ELSE EmptyStr]

HasValue(data) == \E i \in 1..Len(data) : ~IsBlank(data[i][2])

\* the step appends to a sheet without rows / the state follows such a step
FirstAppendStep ==
  /\ req'.op = "POST row" /\ resp'.status = 201
  /\ SheetExists(C, req'.name) /\ cells[req'.name] = <<>>

AfterFirstAppend ==
  /\ req.op = "POST row" /\ resp.status = 201
  /\ \E k \in 1..Len(backendCalls) :
       backendCalls[k].api = "values.update" /\ backendCalls[k].row = 1

SecondAppendStep ==
  /\ AfterFirstAppend
  /\ req'.op = "POST row" /\ req'.name = req.name /\ resp'.status = 201

FirstAppendResult ==
  /\ RowOf(cells'[req'.name], 1) = [i \in 1..Len(req'.data) |-> Str(req'.data[i][1])]
  /\ RowOf(cells'[req'.name], 2) = TrimRow(OwnCells(req'.data))
  /\ resp'.body.val = 2

SecondAppendResult ==
  /\ RowOf(cells'[req'.name], 1) = [i \in 1..Len(req.data) |-> Str(req.data[i][1])]
  /\ RowOf(cells'[req'.name], 3) = TrimRow(Projected(ObjKeys(req.data), req'.data))
  /\ resp'.body.val = 3

\* C1 as stated: appending a record to a sheet with no prior rows writes a
\* header row equal to the record's keys in order, places the values at row
\* 2 and returns 2; the next appendRow on that sheet places its values at
\* row 3 and returns 3.
C1_Original ==
  [][(FirstAppendStep => FirstAppendResult)
       /\ (SecondAppendStep => SecondAppendResult)]_vars

\* C1 amended: the same, for a first record that has at least one property
\* (with a non-empty name) whose value is not blank (not null, not the empty
\* string).
C1_AppendIndices ==
  [][((FirstAppendStep /\ HasValue(req'.data)) => FirstAppendResult)
       /\ ((SecondAppendStep /\ HasValue(req.data)) => SecondAppendResult)]_vars

\* a second append returned 3 on a sheet whose headers the first one wrote
C1_Witness ==
  /\ req.op = "POST row" /\ resp.status = 201 /\ resp.body.val = 3
  /\ Len(backendCalls) = 2
  /\ Len(cells[req.name]) = 3
  /\ cells[req.name][1] = <<Str(KeyTs), Str(KeyId)>>

\* the record getRow is to return after an update
ExpectedRecord(headers, data) ==
  Obj([i \in 1..Len(headers) |->
         <<headers[i],
           IF ObjHas(data, headers[i]) THEN RoundTripOf(ObjGet(data, headers[i]))
           ELSE Null>>])

UpdateDone ==
  /\ req.op = "PUT row" /\ resp.status = 204
  /\ getSchema(C, req.name).val # <<>>

DeleteStep ==
  /\ req'.op = "DELETE row" /\ resp'.status = 204
  /\ parseInt(req'.param).n >= 2
  /\ parseInt(req'.param).n <= Len(getRows(C, req'.name).val) + 1

DeleteCall ==
  LET call == backendCalls'[Len(backendCalls')] IN
  /\ call.api = "batchUpdate.deleteDimension"
  /\ call.values = <<parseInt(req'.param).n - 1, parseInt(req'.param).n>>
  /\ TitleOf(C, call.sheetId) = req'.name

\* C3 as stated: after deleteRow(sheet, i) getRows returns n - 1 records, the
\* previous list without the element at position i - 2, and the backend
\* request is a delete-dimension over rows [i - 1, i).
C3_Original ==
  [][DeleteStep =>
       /\ getRows(CNext, req'.name).val
            = RemoveAt(getRows(C, req'.name).val, parseInt(req'.param).n - 1)
       /\ Len(getRows(CNext, req'.name).val) = Len(getRows(C, req'.name).val) - 1
       /\ DeleteCall]_vars

\* C3 amended: getRows returns the previous list without the element at
\* position i - 2 and without the records of the rows that are left at the
\* end of the sheet with no populated cell (so n - 1 records unless the last
\* row was deleted and the rows before it are blank); the backend request is
\* a delete-dimension over rows [i - 1, i).
C3_DeleteShifts ==
  [][DeleteStep =>
       /\ getRows(CNext, req'.name).val
            = SubSeq(RemoveAt(getRows(C, req'.name).val, parseInt(req'.param).n - 1),
                     1, Len(TrimTail(RemoveAt(cells[req'.name], parseInt(req'.param).n))) - 1)
       /\ DeleteCall]_vars

\* row 2 was deleted and a data row is left
C3_Witness ==
  /\ req.op = "DELETE row" /\ resp.status = 204
  /\ parseInt(req.param).n = 2
  /\ Len(cells[req.name]) = 2

\* the step appends or updates a row on a sheet that has headers
WriteStep ==
  /\ req'.op \in {"POST row", "PUT row"} /\ resp'.status \in {201, 204}
  /\ getSchema(C, req'.name).val # <<>>

\* C7: appendRow and updateRow write one cell per existing header, in header
\* order: the outbound codec of data[h] when h is a key of data, blank
\* otherwise; keys that are no headers are dropped and add no column.
C7_Projection ==
  [][WriteStep =>
       /\ backendCalls'[Len(backendCalls')].api
            = (IF req'.op = "POST row" THEN "values.append" ELSE "values.update")
       /\ backendCalls'[Len(backendCalls')].values
            = Projected(getSchema(C, req'.name).val, req'.data)
       /\ Len(backendCalls'[Len(backendCalls')].values) = Len(getSchema(C, req'.name).val)
       /\ getSchema(CNext, req'.name).val = getSchema(C, req'.name).val]_vars

\* a record with a key that is no header was appended under the headers ts, id
C7_Witness ==
  /\ req.op = "POST row" /\ resp.status = 201
  /\ ObjHas(req.data, KeyZz)
  /\ cells[req.name][1] = <<Str(KeyTs), Str(KeyId)>>
  /\ cells[req.name][Len(cells[req.name])] = <<EmptyStr, Num(<<"2">>)>>

\* C8: once a sheet has a non-empty header row, no request changes row 1 of
\* that sheet while the sheet exists.
C8_HeadersStable ==
  [][\A n \in Names :
       (SheetExists(C, n) /\ SheetExists(CNext, n) /\ RowOf(cells[n], 1) # <<>>)
         => RowOf(cells'[n], 1) = RowOf(cells[n], 1)]_vars

\* a row of a sheet with headers was updated
C8_Witness ==
  /\ req.op = "PUT row" /\ resp.status = 204
  /\ RowOf(cells[req.name], 1) # <<>>
  /\ RowOf(cells[req.name], parseInt(req.param).n) # <<>>

GetRowDone ==
  /\ req.op = "GET row"
  /\ ~InvalidRowIndex(parseInt(req.param))
  /\ SheetExists(C, req.name)

NoCell(grid, n) == n > Len(grid) \/ grid[n] = <<>>

\* C9: on an existing sheet getRow does not raise, and returns null exactly
\* when the backend holds no cell for the target row (a row beyond the last
\* populated one, or an existing row whose cells are all empty); the route
\* answers 404 in exactly that case.
C9_NullIffNoCell ==
  GetRowDone =>
    /\ getRow(C, req.name, parseInt(req.param).n).ok
    /\ (getRow(C, req.name, parseInt(req.param).n).val = Null)
         <=> NoCell(cells[req.name], parseInt(req.param).n)
    /\ (resp.status = 404) <=> NoCell(cells[req.name], parseInt(req.param).n)
    /\ resp.status \in {200, 404}

\* GET of an empty row that has populated rows after it answered 404
C9_Witness ==
  /\ GetRowDone
  /\ resp.status = 404
  /\ parseInt(req.param).n < Len(cells[req.name])

\* the list getRows is to return for a grid
ExpectedRows(grid) ==
  IF Len(grid) < 2 THEN <<>>
  ELSE [r \in 1..(Len(grid) - 1) |->
          Obj([k \in 1..Len(grid[1]) |->
                 <<grid[1][k].s,
                   IF k <= Len(grid[r + 1]) THEN formatValueFromSheets(grid[r + 1][k])
                   ELSE Null>>])]

\* C10: getRows returns the empty list when the sheet has fewer than 2 rows;
\* otherwise one record per row after row 1, in row order, with exactly the
\* header names as keys, the inbound codec of the k-th cell as the value of
\* header k, null for missing trailing cells, and no cell beyond the headers.
C10_GetRows ==
  (req.op = "GET rows" /\ SheetExists(C, req.name))
    => /\ resp.status = 200
       /\ resp.body.val = ExpectedRows(cells[req.name])

\* getRows answered for a sheet with a row longer and a row shorter than
\* the header row
C10_Witness ==
  /\ req.op = "GET rows" /\ resp.status = 200
  /\ Len(cells[req.name]) = 3
  /\ Len(cells[req.name][2]) > Len(cells[req.name][1])
  /\ Len(cells[req.name][3]) < Len(cells[req.name][1])

(***************************************************************************)
(* Properties of the application (checked under ApiSpec)                   *)
(***************************************************************************)
HasHeader == header.t = "str" /\ header.s # <<>>

\* C11: deleteSheet and deleteRow called with a name that is the title of
\* no sheet throw an error whose message is exactly Sheet "<name>" not found
\* and issue no delete-sheet and no delete-dimension: the only backend call
\* is the metadata read and the container is unchanged.
C11_NotFound ==
  \A n \in Names :
    ~SheetExists(C, n) =>
      \A r \in {deleteSheet(C, n)} \cup {deleteRow(C, n, i) : i \in 1..(MaxRows + 1)} :
        /\ ~r.ok
        /\ r.err = <<"Sheet \"", n, "\" not found">>
        /\ r.c = C
        /\ \A k \in 1..Len(r.calls) : r.calls[k].api = "spreadsheets.get"

\* DELETE of a row of a sheet that does not exist was answered with the
\* message of deleteRow
C11_Witness ==
  /\ req.op = "DELETE row" /\ HasHeader /\ fault = NoFault
  /\ ~SheetExists(C, req.name)
  /\ resp.status = 500
  /\ resp.body.val = <<"Sheet \"", req.name, "\" not found">>
  /\ Len(sheetList) = 1

\* the request was answered with the not-found error of the mapper
MapperNotFound ==
  /\ req.op \in {"DELETE sheet", "DELETE row"}
  /\ resp.status \in {404, 500}
  /\ resp.body.val = <<"Sheet \"", req.name, "\" not found">>

\* C12 as stated: whenever the mapper raises the not-found condition (from
\* delete-sheet or from delete-row) the response is 404 with an error body.
C12_Original ==
  MapperNotFound => (resp.status = 404 /\ resp.body.kind = "error")

\* C12 amended: the not-found condition of delete-sheet is answered 404 with
\* an error body; the not-found condition of delete-row is answered 500 with
\* the message as error body.
C12_NotFoundStatus ==
  MapperNotFound =>
    /\ resp.body.kind = "error"
    /\ resp.status = (IF req.op = "DELETE sheet" THEN 404 ELSE 500)

\* DELETE of a sheet that does not exist was answered 404
C12_Witness ==
  /\ req.op = "DELETE sheet" /\ HasHeader /\ fault = NoFault
  /\ ~SheetExists(C, req.name)
  /\ resp.status = 404

\* a text that is a decimal number
IsNumeric(txt) == txt # <<>> /\ \A i \in 1..Len(txt) : txt[i] \in Digits

\* C13: for GET, PUT and DELETE on /sheets/{sheet}/rows/{rowIndex}, a
\* rowIndex parameter that is below 2 or not numeric is answered with 400 and
\* no backend call is made for it.
C13_RowIndexValidation ==
  (req.op \in {"GET row", "PUT row", "DELETE row"} /\ HasHeader
     /\ (~IsNumeric(req.param) \/ ParseInt(req.param) < 2))
    => (resp.status = 400 /\ backendCalls = <<>>)

\* the step serves an append on an existing sheet and no backend call fails
AppendStep ==
  /\ req'.op = "POST row"
  /\ header'.t = "str" /\ header'.s # <<>>
  /\ fault'.at = 0
  /\ SheetExists(C, req'.name)

\* the updated range the backend reports for the append of the step
AppendRange ==
  LET b == BeforeAppend(C, req'.name, req'.data) IN
  UpdatedRange(Len(b.cells[req'.name]) + 1, Len(getSchema(b, req'.name).val))

HasColon(txt) == \E i \in 1..Len(txt) : txt[i] = ":"

\* the number of digits a text ends with
DigitRun(txt) ==
  CHOOSE k \in 0..Len(txt) :
    /\ \A i \in (Len(txt) - k + 1)..Len(txt) : txt[i] \in Digits
    /\ (k = Len(txt) \/ txt[Len(txt) - k] \notin Digits)

\* the integer a text ends with, -1 when it ends with none
TrailingInteger(txt) ==
  IF DigitRun(txt) = 0 THEN -1
  ELSE ParseInt(SubSeq(txt, Len(txt) - DigitRun(txt) + 1, Len(txt)))

\* C14 as stated: appendRow reports the trailing integer after the last
\* colon of the reported range, and -1 when the range has no such integer;
\* the request is answered 201 in both cases.
C14_Original ==
  [][AppendStep =>
       /\ resp'.status = 201
       /\ resp'.body.val = (IF HasColon(AppendRange) THEN TrailingInteger(AppendRange)
                            ELSE -1)]_vars

\* C14 amended: appendRow reports the integer the reported range ends with,
\* whether or not a colon precedes it (the range of a one-column row, such
\* as Users!A2, has none), and -1 when the range ends with no integer
\* (missing or empty); the request is answered 201 in both cases.
C14_RowIndex ==
  [][AppendStep =>
       /\ resp'.status = 201
       /\ resp'.body.val = TrailingInteger(AppendRange)]_vars

\* an append to a one-column sheet reported row 2
C14_Witness ==
  /\ req.op = "POST row" /\ resp.status = 201 /\ resp.body.val = 2
  /\ Len(req.data) = 1
  /\ cells[req.name] = <<<<Str(KeyId)>>, <<One>>>>

(***************************************************************************)
(* Reference descriptions of the codec (checked under CodecSpec)           *)
(***************************************************************************)
AllDigits(txt, positions) == \A i \in positions : txt[i] \in Digits

\* YYYY-MM-DD at position from of a text long enough
DateShape(txt, from) ==
  /\ AllDigits(txt, {from, from + 1, from + 2, from + 3, from + 5, from + 6,
                     from + 8, from + 9})
  /\ txt[from + 4] = "-" /\ txt[from + 7] = "-"

\* HH:mm:ss at position from of a text long enough
TimeShape(txt, from) ==
  /\ AllDigits(txt, {from, from + 1, from + 3, from + 4, from + 6, from + 7})
  /\ txt[from + 2] = ":" /\ txt[from + 5] = ":"

\* YYYY-MM-DDTHH:mm:ssZ or YYYY-MM-DDTHH:mm:ss.SSSZ
WireShape(txt) ==
  /\ Len(txt) \in {20, 24}
  /\ DateShape(txt, 1) /\ txt[11] = "T" /\ TimeShape(txt, 12)
  /\ txt[Len(txt)] = "Z"
  /\ Len(txt) = 24 => (txt[20] = "." /\ AllDigits(txt, {21, 22, 23}))

ForSheetsReference(v) ==
  IF v \in {Null, Undefined} THEN EmptyStr
  ELSE IF v.t = "str" /\ WireShape(v.s)
       THEN Str(SubSeq(v.s, 1, 10) \o <<" ">> \o SubSeq(v.s, 12, 19))
       ELSE v

\* C15: formatValueForSheets equals the reference for every input: null or
\* undefined gives the empty string; a string of the wire ISO shape gives
\* YYYY-MM-DD HH:mm:ss made of the digits of the input; every other value is
\* returned unchanged.
C15_ForSheetsReference ==
  cop = "forSheets" => cout = ForSheetsReference(cin)

IsEmptyCase(v) == v \in {EmptyStr, Null, Undefined}
IsDateTimeCase(v) ==
  v.t = "str" /\ Len(v.s) = 19 /\ DateShape(v.s, 1) /\ v.s[11] = " " /\ TimeShape(v.s, 12)
IsDateCase(v) == v.t = "str" /\ Len(v.s) = 10 /\ DateShape(v.s, 1)

FromSheetsReference(v) ==
  IF IsEmptyCase(v) THEN Null
  ELSE IF IsDateTimeCase(v)
       THEN Str(SubSeq(v.s, 1, 10) \o <<"T">> \o SubSeq(v.s, 12, 19) \o Millis000)
       ELSE IF IsDateCase(v)
            THEN Str(v.s \o <<"T", "0", "0", ":", "0", "0", ":", "0", "0">> \o Millis000)
            ELSE v

\* C16: formatValueFromSheets equals the reference for every input: empty
\* string, null or undefined gives null; exactly YYYY-MM-DD HH:mm:ss gives
\* YYYY-MM-DDTHH:mm:ss.000Z; exactly YYYY-MM-DD gives
\* YYYY-MM-DDT00:00:00.000Z; every other value is returned unchanged; no
\* input satisfies two of the cases.
C16_FromSheetsReference ==
  cop = "fromSheets" =>
    /\ cout = FromSheetsReference(cin)
    /\ Cardinality({k \in {1, 2, 3} :
                      \/ k = 1 /\ IsEmptyCase(cin)
                      \/ k = 2 /\ IsDateTimeCase(cin)
                      \/ k = 3 /\ IsDateCase(cin)}) <= 1

\* a date-only cell was read back as midnight UTC
C16_Witness ==
  /\ cop = "fromSheets"
  /\ cin = Str(SampleDate)
  /\ cout = Str(SampleDate \o <<"T", "0", "0", ":", "0", "0", ":", "0", "0">> \o Millis000)

\* the fields of a text of the wire ISO shape name a calendar instant
CalendarInstant(txt) ==
  LET f == IsoFields(txt) IN
  /\ f.mo \in 1..12
  /\ f.d \in 1..DaysInMonth(f.y, f.mo)
  /\ f.h \in 0..23 /\ f.mi \in 0..59 /\ f.se \in 0..59

\* C17: a string that has the wire ISO shape but names no valid calendar
\* instant is returned unchanged by formatValueForSheets (the codec raises
\* for no input and passes unparseable values through).
C17_NoFailureMode ==
  (cop = "forSheets" /\ cin.t = "str" /\ WireShape(cin.s) /\ ~CalendarInstant(cin.s))
    => cout = cin

(***************************************************************************)
(* Failures, the header check and the life of a sheet (under ApiSpec)      *)
(***************************************************************************)
\* what the operation of the request of the step does when no call fails
ServiceOutcome ==
  CASE req'.op = "GET rows" -> getRows(C, req'.name)
    [] req'.op = "GET row" -> getRow(C, req'.name, parseInt(req'.param).n)
    [] req'.op = "POST row" -> appendRow(C, req'.name, req'.data, lenient)
    [] req'.op = "PUT row" -> updateRow(C, req'.name, parseInt(req'.param).n, req'.data, lenient)
    [] req'.op = "DELETE row" -> deleteRow(C, req'.name, parseInt(req'.param).n)
    [] req'.op = "GET sheets" -> listSheets(C)
    [] req'.op = "POST sheet" -> createSheet(C, req'.name)
    [] req'.op = "DELETE sheet" -> deleteSheet(C, req'.name)
    [] req'.op = "GET schema" -> getSchema(C, req'.name)
    [] OTHER -> Ok(Null, C, <<>>)

\* the step serves a request whose operation has one of its calls failed
FaultStep ==
  /\ req'.op \notin {"none", "GET health"}
  /\ header'.t = "str" /\ header'.s # <<>>
  /\ req'.op \in {"GET row", "PUT row", "DELETE row"} => ~InvalidRowIndex(parseInt(req'.param))
  /\ fault'.at \in 1..Len(ServiceOutcome.calls)

\* the calls stop at the failed one, and only the writes before it are kept
CallsStop ==
  /\ backendCalls' = SubSeq(ServiceOutcome.calls, 1, fault'.at)
  /\ resp'.body = [kind |-> "error", val |-> fault'.err]
  /\ CNext = (IF req'.op = "POST row" /\ fault'.at = 3
              THEN BeforeAppend(C, req'.name, req'.data) ELSE C)

\* C18 as stated: when a backend call of an operation fails, the operation
\* issues no further call and no retry, and the response is 500 with an
\* error body.
C18_Original ==
  [][FaultStep => (CallsStop /\ resp'.status = 500)]_vars

\* C18 amended: the same, except that DELETE /sheets/{sheetName} answers 404
\* when the message of the failure contains 'not found', whether the failure
\* is the not-found of deleteSheet or a failed backend call.
C18_NoRetry ==
  [][FaultStep =>
       /\ CallsStop
       /\ resp'.status = (IF req'.op = "DELETE sheet" /\ IncludesNotFound(fault'.err)
                          THEN 404 ELSE 500)]_vars

\* the header write of an append failed: two calls were issued, the append
\* was not, and the sheet is still empty
C18_Witness ==
  /\ req.op = "POST row" /\ resp.status = 500
  /\ fault = Fault(2, ApiError)
  /\ Len(backendCalls) = 2 /\ backendCalls[2].api = "values.update"
  /\ cells[req.name] = <<>>

\* C19: every request under /sheets without a non-empty X-Spreadsheet-Id
\* header is answered 400 with an error naming the header, issues no backend
\* call and changes nothing; GET /health answers 200 {status: 'ok'} with or
\* without the header.
C19_HeaderRequired ==
  [][/\ (req'.op \notin {"none", "GET health"} /\ ~(header'.t = "str" /\ header'.s # <<>>))
          => /\ resp' = Response(400, "error", "Missing required header: X-Spreadsheet-Id")
             /\ backendCalls' = <<>>
             /\ CNext = C
     /\ req'.op = "GET health"
          => /\ resp' = Response(200, "status", "ok")
             /\ backendCalls' = <<>>
             /\ CNext = C]_vars

\* an append with an empty header value was refused
C19_Witness ==
  /\ req.op = "POST row" /\ header = EmptyStr
  /\ resp.status = 400 /\ backendCalls = <<>>

\* the titles listSheets returns
Titles(c) == {listSheets(c).val[i].title : i \in 1..Len(listSheets(c).val)}

\* C20: after a successful create of name, listSheets has a sheet titled
\* name (and the title returned is name) until a delete of name succeeds;
\* after a successful delete of name listSheets has no sheet titled name,
\* and no other sheet is removed.
C20_Lifecycle ==
  [][/\ (req'.op = "POST sheet" /\ resp'.status = 201)
          => (resp'.body.val.title = req'.name /\ req'.name \in Titles(CNext))
     /\ \A n \in Names :
          (n \in Titles(C)
             /\ ~(req'.op = "DELETE sheet" /\ req'.name = n /\ resp'.status = 204))
            => n \in Titles(CNext)
     /\ (req'.op = "DELETE sheet" /\ resp'.status = 204)
          => /\ req'.name \notin Titles(CNext)
             /\ sheetList' = SelectSeq(sheetList, LAMBDA sh : sh.title # req'.name)]_vars

\* the sheet Tmp, created after Users, was deleted and Users stayed
C20_Witness ==
  /\ req.op = "DELETE sheet" /\ resp.status = 204
  /\ req.name = "Tmp"
  /\ Len(sheetList) = 1 /\ sheetList[1].title = "Users"

(***************************************************************************)
(* appendRow step by step: each process is one appendRow call on the       *)
(* sheet Users, and each action is one backend round trip of a call, so    *)
(* that the round trips of concurrent calls interleave.  The backend       *)
(* serves one round trip at a time.  A call is                             *)
(* [pc, data, headers, created, rowIndex, overlapped]: the next step, the  *)
(* record, the local variable headers, whether the call found no header,   *)
(* the index returned, and whether the call ran while another call was     *)
(* between its first and its last round trip.                              *)
(***************************************************************************)
\* call p is between its first and its last round trip
InFlight(p) == appends[p].pc \in {"header", "append"}

\* headers = await getSchema(...); if (headers.length === 0) headers = Object.keys(data)
GetSchemaStep(p, data) ==
  /\ appends[p].pc = "idle"
  /\ \E h \in {getSchema(C, "Users")} :
       /\ h.ok
       /\ appends' = [q \in Procs |->
            IF q = p
            THEN [pc |-> IF Len(h.val) = 0 THEN "header" ELSE "append",
                  data |-> data,
                  headers |-> IF Len(h.val) = 0 THEN ObjKeys(data) ELSE h.val,
                  created |-> (Len(h.val) = 0),
                  rowIndex |-> 0,
                  overlapped |-> \E o \in Procs \ {p} : InFlight(o)]
            ELSE IF InFlight(q) THEN [appends[q] EXCEPT !.overlapped = TRUE]
            ELSE appends[q]]
       /\ backendCalls' = h.calls
  /\ UNCHANGED <<sheetList, cells, req, resp, lenient, cin, cout, cop, header, fault>>

\* await sheets.spreadsheets.values.update({ range: 1:1, values: [headers] })
HeaderWriteStep(p) ==
  /\ appends[p].pc = "header"
  /\ \E hcells \in {[i \in 1..Len(appends[p].headers) |-> Str(appends[p].headers[i])]} :
       /\ cells' = [cells EXCEPT !["Users"] = ValuesUpdate(@, 1, hcells)]
       /\ backendCalls' = <<Call("values.update", "Users", 1, hcells, -1)>>
  /\ appends' = [appends EXCEPT ![p].pc = "append"]
  /\ UNCHANGED <<sheetList, req, resp, lenient, cin, cout, cop, header, fault>>

\* await sheets.spreadsheets.values.append({ values: [rowValues] }); return { rowIndex }
ValuesAppendStep(p) ==
  /\ appends[p].pc = "append"
  /\ \E rowValues \in {RowValues(appends[p].headers, appends[p].data, lenient)} :
       /\ cells' = [cells EXCEPT !["Users"] = ValuesAppend(@, rowValues)]
       /\ backendCalls' = <<Call("values.append", "Users", 0, rowValues, -1)>>
       /\ appends' = [appends EXCEPT
            ![p].pc = "done",
            ![p].rowIndex = ParseRowIndex(UpdatedRange(AppendedRow(cells["Users"]),
                                                       Len(rowValues)))]
  /\ UNCHANGED <<sheetList, req, resp, lenient, cin, cout, cop, header, fault>>

\* the records of the calls: those of the requests, and one with a null
\* next to a value
ConcData == DataSet \cup {<<<<KeyId, Null>>, <<KeyTs, Str(<<"x">>)>>>>}

\* the sheet before the calls: no cell, or a header row
ConcGrids == {<<>>, <<<<Str(KeyId), Str(KeyTs)>>>>}

ConcInit ==
  /\ sheetList = <<[sheetId |-> 0, title |-> "Users"]>>
  /\ \E g \in ConcGrids : cells = [n \in Names |-> IF n = "Users" THEN g ELSE <<>>]
  /\ req = Idle
  /\ resp = Response(0, "none", Null)
  /\ backendCalls = <<>>
  /\ lenient = TRUE
  /\ cin = Null
  /\ cout = Null
  /\ cop = "none"
  /\ header = SpreadsheetId
  /\ fault = NoFault
  /\ appends = NoAppends

ConcNext ==
  \/ \E p \in Procs, data \in ConcData : GetSchemaStep(p, data)
  \/ \E p \in Procs : HeaderWriteStep(p)
  \/ \E p \in Procs : ValuesAppendStep(p)

ConcSpec == ConcInit /\ [][ConcNext]_vars

(***************************************************************************)
(* Client SDK (SheetsDbClient).  A fetch Response is                       *)
(* [status, json, data, text]: json says whether the body text parses as   *)
(* JSON, data is the parsed value.  The body of a Response is a stream     *)
(* that can be read once: json() and text() reject with a TypeError on a   *)
(* body that was read before, and json() reads the whole body before it    *)
(* parses it.  The outcome of a method is [threw, name, message, status,   *)
(* response]: the value returned, or the error thrown.                     *)
(***************************************************************************)
FetchResponse(status, json, data, text) ==
  [status |-> status, json |-> json, data |-> data, text |-> text]

\* response.ok
ResponseOk(response) == response.status \in 200..299

Returned(val) ==
  [threw |-> FALSE, name |-> "", message |-> <<>>, status |-> 0, response |-> val]
Thrown(name, message, status, response) ==
  [threw |-> TRUE, name |-> name, message |-> message, status |-> status,
   response |-> response]

\* new SheetsDbError(message, status, response)
SheetsDbError(message, status, response) ==
  Thrown("SheetsDbError", message, status, response)

BodyUsedError == Thrown("TypeError", <<"Body has already been read">>, 0, Null)

\* response.json() on a body read (bodyUsed) or not read before
ResponseJson(response, bodyUsed) ==
  IF bodyUsed THEN BodyUsedError
  ELSE IF response.json THEN Returned(response.data)
  ELSE Thrown("SyntaxError", <<"Unexpected token">>, 0, Null)

\* response.text()
ResponseText(response, bodyUsed) ==
  IF bodyUsed THEN BodyUsedError ELSE Returned(Str(response.text))

\* String(value)
String(value) ==
  CASE value.t = "null" -> <<"null">>
    [] value.t = "undef" -> <<"undefined">>
    [] value.t = "obj" -> <<"[object Object]">>
    [] OTHER -> value.s

\* `Request failed with status ${response.status}`
RequestFailed(status) == <<"Request failed with status ">> \o ToText(status)

\* typeof errorData === 'object' && errorData !== null && 'error' in errorData
ErrorMessage(errorData, status) ==
  IF errorData.t = "obj" /\ ObjHas(errorData.s, <<"error">>)
  THEN String(ObjGet(errorData.s, <<"error">>))
  ELSE RequestFailed(status)

\* SheetsDbClient.request, from the Response that fetch resolved with
request(response) ==
  IF ~ResponseOk(response)
  THEN LET parsed == ResponseJson(response, FALSE)
           read == IF parsed.threw THEN ResponseText(response, TRUE) ELSE parsed
       IN IF read.threw THEN read
          ELSE SheetsDbError(ErrorMessage(read.response, response.status),
                             response.status, read.response)
  ELSE IF response.status = 204 THEN Returned(Undefined)
  ELSE ResponseJson(response, FALSE)

\* SheetsDbClient.health: no test of response.ok
health(response) == ResponseJson(response, FALSE)

Statuses == {200, 201, 204, 400, 404, 500, 502, 503}

ErrorBody(message) == Obj(<<<< <<"error">>, message >>>>)

\* bodies that are JSON: the error bodies of the routes, and other values
JsonBodies ==
  { ErrorBody(Str(<<"Row not found">>)),
    ErrorBody(Str(<<"Sheet \"", "Users", "\" not found">>)),
    ErrorBody(Str(<<"Missing required header: X-Spreadsheet-Id">>)),
    ErrorBody(Num(<<"4", "2">>)),
    ErrorBody(Null),
    Obj(<<<< <<"message">>, Str(<<"Bad Gateway">>) >>>>),
    Obj(<<>>),
    Null,
    Str(<<"Row not found">>) }

\* bodies that are not JSON: an HTML error page, plain text, no body
TextBodies == { <<"<html>502 Bad Gateway</html>">>, <<"Internal Server Error">>, <<>> }

FetchResponses ==
  {FetchResponse(st, TRUE, d, <<"(json)">>) : st \in Statuses, d \in JsonBodies}
    \cup {FetchResponse(st, FALSE, Null, txt) : st \in Statuses, txt \in TextBodies}

ClientInit ==
  /\ sheetList = <<[sheetId |-> 0, title |-> "Users"]>>
  /\ cells = [n \in Names |-> <<>>]
  /\ req = Idle
  /\ resp = Response(0, "none", Null)
  /\ backendCalls = <<>>
  /\ lenient = FALSE
  /\ cin \in FetchResponses
  /\ cout = Returned(Null)
  /\ cop = "none"
  /\ header = SpreadsheetId
  /\ fault = NoFault
  /\ appends = NoAppends

ClientRequest ==
  /\ cop = "none"
  /\ cop' = "request"
  /\ cout' = request(cin)
  /\ UNCHANGED <<sheetList, cells, req, resp, backendCalls, lenient, cin, header, fault, appends>>

ClientHealth ==
  /\ cop = "none"
  /\ cop' = "health"
  /\ cout' = health(cin)
  /\ UNCHANGED <<sheetList, cells, req, resp, backendCalls, lenient, cin, header, fault, appends>>

ClientNext == ClientRequest \/ ClientHealth

ClientSpec == ClientInit /\ [][ClientNext]_vars

(***************************************************************************)
(* C21                                                                     *)
(***************************************************************************)
\* the body is a JSON object with an error field
HasErrorField(response) ==
  response.json /\ response.data.t = "obj" /\ ObjHas(response.data.s, <<"error">>)

\* C21: every request that receives a non-2xx response throws a
\* SheetsDbError whose status is the HTTP status and whose message is the
\* error field of the body when the body is a JSON object with one, and
\* otherwise 'Request failed with status <status>', whether or not the body
\* is valid JSON.
C21_ClientErrors ==
  (cop = "request" /\ ~ResponseOk(cin)) =>
     /\ cout.threw
     /\ cout.name = "SheetsDbError"
     /\ cout.status = cin.status
     /\ cout.message = IF HasErrorField(cin)
                       THEN String(ObjGet(cin.data.s, <<"error">>))
                       ELSE RequestFailed(cin.status)

(***************************************************************************)
(* C22                                                                     *)
(***************************************************************************)
\* row 1 of the sheet Users
HeaderRow(grid) == IF grid = <<>> THEN <<>> ELSE grid[1]

\* the step is the header write of call p
HeaderWriteBy(p) == appends[p].pc = "header" /\ appends'[p].pc = "append"

\* call p has written row 1
WroteHeader(p) == appends[p].created /\ appends[p].pc \in {"append", "done"}

\* C22 as stated: in any interleaving of the round trips of the appendRow
\* calls on a sheet, header cells are written to row 1 only while the sheet
\* has no header.
C22_Original ==
  [][\A p \in Procs :
       (HeaderWriteBy(p) /\ appends[p].headers # <<>>) =>
          HeaderRow(cells["Users"]) = <<>>]_vars

\* C22: row 1 changes only by the header write of an appendRow call that
\* read the header row empty; a call that read a header never writes row 1;
\* and a header write finds a header in row 1 only when another call wrote
\* it after the writing call read the header row.
C22_HeaderWrites ==
  [][/\ \A p \in Procs :
          HeaderWriteBy(p) =>
            /\ appends[p].created
            /\ \/ HeaderRow(cells["Users"]) = <<>>
               \/ \E q \in Procs \ {p} : WroteHeader(q)
     /\ HeaderRow(cells'["Users"]) # HeaderRow(cells["Users"]) =>
          \E p \in Procs : HeaderWriteBy(p)]_vars

\* a first append wrote the headers, a later append found them and wrote
\* its row without a header write
C22_Witness ==
  \E p, q \in Procs :
     /\ appends[p].pc = "done" /\ appends[p].created /\ appends[p].headers # <<>>
     /\ appends[q].pc = "done" /\ ~appends[q].created
     /\ appends[q].headers = appends[p].headers
     /\ appends[q].rowIndex = 3

(***************************************************************************)
(* C23                                                                     *)
(***************************************************************************)
\* the request was an appendRow on a header-less sheet whose header write
\* was done and whose append failed
Interrupted ==
  /\ req.op = "POST row" /\ HasHeader
  /\ fault.at = 3 /\ Len(backendCalls) = 3
  /\ backendCalls[2].api = "values.update"
  /\ resp.status = 500

\* the sheet after an uninterrupted first append of data under headers
FirstAppendGrid(headers, data) ==
  TrimGrid(<<[i \in 1..Len(headers) |-> Str(headers[i])],
             [i \in 1..Len(headers) |->
                formatValueForSheets(ObjGet(data, headers[i]), lenient)]>>)

\* after the interrupted append the sheet holds its headers and no data
\* row, and the next appendRow of any record issues no write of row 1,
\* returns index 2 and leaves the sheet of an uninterrupted first append
SelfHealed ==
  /\ getSchema(C, req.name).val = ObjKeys(req.data)
  /\ getRows(C, req.name).val = <<>>
  /\ \A data \in ApiData :
       \E r \in {appendRow(C, req.name, data, lenient)} :
          /\ r.ok
          /\ \A i \in 1..Len(r.calls) : r.calls[i].api # "values.update"
          /\ r.val.rowIndex = 2
          /\ r.c.cells[req.name] = FirstAppendGrid(ObjKeys(req.data), data)

Writes(calls) ==
  {i \in 1..Len(calls) : calls[i].api \notin {"values.get", "spreadsheets.get"}}

ReadOps == {"GET rows", "GET row", "GET sheets", "GET schema", "GET health"}

\* the request of the step is an appendRow on a sheet without headers
HeaderlessAppend ==
  /\ req'.op = "POST row"
  /\ getSchema(C, req'.name).ok
  /\ getSchema(C, req'.name).val = <<>>

\* C24: within an appendRow on a header-less sheet the header write comes
\* before the append, and the append is not issued when the header write
\* fails; every other operation, and appendRow on a sheet with headers,
\* issues at most one backend write; the read operations issue none.
C24_Writes ==
  [][/\ \A i, j \in 1..Len(backendCalls') :
          (backendCalls'[i].api = "values.update" /\ req'.op = "POST row"
             /\ backendCalls'[j].api = "values.append") => (i < j /\ fault'.at # i)
     /\ Cardinality(Writes(backendCalls')) <= (IF HeaderlessAppend THEN 2 ELSE 1)
     /\ req'.op \in ReadOps => Writes(backendCalls') = {}]_vars

\* an appendRow on a header-less sheet has issued its two writes in order
C24_Witness ==
  /\ req.op = "POST row" /\ resp.status = 201
  /\ Len(backendCalls) = 3
  /\ backendCalls[2].api = "values.update" /\ backendCalls[2].row = 1
  /\ backendCalls[3].api = "values.append"

(***************************************************************************)
(* C25                                                                     *)
(***************************************************************************)
\* the cells of a row written from data and aligned with headers
AlignedRow(headers, data) ==
  TrimRow([k \in 1..Len(headers) |->
             formatValueForSheets(ObjGet(data, headers[k]), lenient)])

\* every stored data row holds, under the current headers, the record of a
\* call that was given that row
Aligned ==
  \A i \in 2..Len(cells["Users"]) :
     \E p \in Procs :
        /\ appends[p].pc = "done"
        /\ appends[p].rowIndex = i
        /\ cells["Users"][i] = AlignedRow(getSchema(C, "Users").val, appends[p].data)

\* C25 as stated: in every reachable state, also when appendRow calls with
\* different key sets run concurrently on a header-less sheet, every stored
\* data row is aligned with the current header row.
C25_Original == Aligned

\* C25: while at most one appendRow call has written the header row, every
\* stored data row is aligned with the current header row.
C25_Aligned ==
  Cardinality({p \in Procs : WroteHeader(p)}) <= 1 => Aligned

\* two calls with different key sets overlapped on a header-less sheet, the
\* second read the headers the first wrote, and both records are stored
\* under those headers
C25_Witness ==
  \E p, q \in Procs :
     /\ appends[p].pc = "done" /\ appends[p].created
     /\ appends[q].pc = "done" /\ ~appends[q].created
     /\ appends[p].overlapped /\ appends[q].overlapped
     /\ {appends[p].rowIndex, appends[q].rowIndex} = {2, 3}
     /\ ObjKeys(appends[p].data) # ObjKeys(appends[q].data)
     /\ \E k \in 1..Len(appends[q].headers) : ~ObjHas(appends[q].data, appends[q].headers[k])
     /\ Len(cells["Users"]) = 3
     /\ Aligned

(***************************************************************************)
(* C26                                                                     *)
(***************************************************************************)
\* row i of the sheet Users, blank when nothing is stored there
StoredRow(i) == IF i \in 1..Len(cells["Users"]) THEN cells["Users"][i] ELSE <<>>

\* two calls that both read the header row have completed
BothAppended(p, q) ==
  /\ p # q
  /\ appends[p].pc = "done" /\ ~appends[p].created
  /\ appends[q].pc = "done" /\ ~appends[q].created

\* both records are stored: two data rows, distinct indices, each index
\* addressing the row that holds the record of its call
BothStored(p, q) ==
  /\ Len(cells["Users"]) >= 3
  /\ (appends[p].rowIndex # -1 /\ appends[q].rowIndex # -1) =>
       /\ appends[p].rowIndex # appends[q].rowIndex
       /\ StoredRow(appends[p].rowIndex) = AlignedRow(appends[p].headers, appends[p].data)
       /\ StoredRow(appends[q].rowIndex) = AlignedRow(appends[q].headers, appends[q].data)

\* C26 as stated: two concurrent appendRow calls on a sheet that has
\* headers both store their record in a row of its own, and their indices
\* are distinct and address those rows.
C26_Original ==
  \A p, q \in Procs : BothAppended(p, q) => BothStored(p, q)

\* C26: the same for two records that each have a non-blank value under at
\* least one header.
C26_BothStored ==
  \A p, q \in Procs :
     (/\ BothAppended(p, q)
      /\ AlignedRow(appends[p].headers, appends[p].data) # <<>>
      /\ AlignedRow(appends[q].headers, appends[q].data) # <<>>) =>
        /\ BothStored(p, q)
        /\ appends[p].rowIndex >= 2 /\ appends[q].rowIndex >= 2

\* two calls overlapped on a sheet with headers and both stored a record
C26_Witness ==
  \E p, q \in Procs :
     /\ BothAppended(p, q)
     /\ appends[p].overlapped /\ appends[q].overlapped
     /\ appends[p].data # appends[q].data
     /\ AlignedRow(appends[p].headers, appends[p].data) # <<>>
     /\ AlignedRow(appends[q].headers, appends[q].data) # <<>>
     /\ appends[p].rowIndex = 2 /\ appends[q].rowIndex = 3
     /\ Len(cells["Users"]) = 3

(***************************************************************************)
(* C27                                                                     *)
(***************************************************************************)
\* the step is the return of call p with an index >= 2, p having run while
\* no other call was in progress
Returns(p) ==
  /\ appends[p].pc = "append" /\ appends'[p].pc = "done"
  /\ appends'[p].rowIndex >= 2
  /\ ~appends[p].overlapped

\* getRow(sheet, rowIndex) right after the return of call p
ReadBack(p) == getRow(CNext, "Users", appends'[p].rowIndex)

\* the value of key i of the record of call p comes back as it was sent
SameValue(p, i) ==
  /\ ReadBack(p).ok
  /\ ReadBack(p).val.t = "obj"
  /\ ObjGet(ReadBack(p).val.s, appends[p].data[i][1]) = appends[p].data[i][2]

IsHeader(p, i) ==
  \E k \in 1..Len(appends[p].headers) : appends[p].headers[k] = appends[p].data[i][1]

RowIndices == 2..(MaxRows + 2)

\* a record whose values are all null
AllNull(record) == \A i \in 1..Len(record.s) : record.s[i][2] = Null

\* C28 as stated: on every sheet state, getRow(k + 2) equals the k-th
\* element of the list of getRows (counted from 0), and getRow returns null
\* for every index beyond the list.
C28_Original ==
  \A name \in Names : SheetExists(C, name) =>
     \A idx \in RowIndices :
        IF idx - 1 <= Len(getRows(C, name).val)
        THEN getRow(C, name, idx).val = getRows(C, name).val[idx - 1]
        ELSE getRow(C, name, idx).val = Null

\* C28: the same for the rows that hold a value; for a row without values
\* that has populated rows after it, getRows has a record with every header
\* null and getRow returns null.
C28_Agree ==
  \A name \in Names : SheetExists(C, name) =>
     \A idx \in RowIndices :
        IF idx - 1 <= Len(getRows(C, name).val)
        THEN IF RowOf(cells[name], idx) # <<>>
             THEN getRow(C, name, idx).val = getRows(C, name).val[idx - 1]
             ELSE /\ getRow(C, name, idx).val = Null
                  /\ AllNull(getRows(C, name).val[idx - 1])
        ELSE getRow(C, name, idx).val = Null

\* a sheet with headers, no value in row 2 and a record in row 3
C28_Witness ==
  /\ Len(cells["Users"]) = 3
  /\ cells["Users"][1] # <<>>
  /\ cells["Users"][2] = <<>>
  /\ Len(getRows(C, "Users").val) = 2
  /\ getRow(C, "Users", 3).val = getRows(C, "Users").val[2]

(***************************************************************************)
(* C29                                                                     *)
(***************************************************************************)
\* the step is an updateRow that succeeded
UpdateStep == req'.op = "PUT row" /\ resp'.status = 204

\* the number of records of getRows before and after the step
RecordsBefore == Len(getRows(C, req'.name).val)
RecordsAfter == Len(getRows(CNext, req'.name).val)

\* the cells the update sends, without trailing blanks
SentCells ==
  TrimRow([k \in 1..Len(getSchema(C, req'.name).val) |->
             formatValueForSheets(ObjGet(req'.data, getSchema(C, req'.name).val[k]),
                                  lenient)])

DeleteSheetStep ==
  /\ req'.op = "DELETE sheet"
  /\ header'.t = "str" /\ header'.s # <<>>

\* the metadata read of the step failed, or its structural delete did
CallFailed ==
  \/ fault'.at = 1
  \/ fault'.at = 2 /\ SheetExists(C, req'.name)

\* C30 as stated: DELETE /sheets/{sheetName} answers 404 only if the
\* container has no sheet titled sheetName at the time of the lookup; a
\* failed metadata read and a failed structural delete are answered 500
\* whatever the message of the failure is.
C30_Original ==
  [][DeleteSheetStep =>
       /\ resp'.status = 404 => ~SheetExists(C, req'.name)
       /\ CallFailed => resp'.status = 500]_vars

\* C30: DELETE /sheets/{sheetName} answers 404 when the container has no
\* sheet titled sheetName at the lookup, and also when the metadata read or
\* the structural delete fails with a message that contains 'not found';
\* every other failure is answered 500, and success 204.
C30_DeleteSheetStatus ==
  [][DeleteSheetStep =>
       resp'.status =
         (IF CallFailed THEN (IF fault'.err = EntityNotFound THEN 404 ELSE 500)
          ELSE IF ~SheetExists(C, req'.name) THEN 404
          ELSE 204)]_vars

\* the metadata read failed with the backend's 'Requested entity was not
\* found.' and the request for a sheet that exists was answered 404
C30_Witness ==
  /\ req.op = "DELETE sheet" /\ resp.status = 404
  /\ fault = Fault(1, EntityNotFound)
  /\ SheetExists(C, req.name)
  /\ Len(backendCalls) = 1

====
